---- MODULE Spec2Model ----
(***************************************************************************)
(* A model of src/cryptoexchange/bitmex_ws.py: the BitMEXWebsocket table   *)
(* mirror.  Two threads act on one instance: the caller thread, which runs *)
(* __init__ (connect, bounded connect wait, the two priming requests) and  *)
(* afterwards the query surface, and the transport's delivery thread,      *)
(* which runs __on_message once per inbound message.                       *)
(*                                                                         *)
(* A row is a function from field names to values (a JSON object), a table *)
(* is a sequence of rows, self.data and self.keys are functions whose      *)
(* domain is the set of table names seen so far.                           *)
(***************************************************************************)
EXTENDS Integers, Sequences, FiniteSets, TLC

VARIABLES
    api_key,        \* self.api_key: "None" or a key
    login,          \* self.login: "None" or a login
    pc,             \* position of the caller thread in __init__
    ws,             \* "None" until the WebSocketApp object is created
    wst,            \* TRUE once the delivery thread has been started
    sock,           \* self.ws.sock: "None", "connecting", "connected", "closed"
    conn_timeout,   \* the local tick counter of __connect, 0 outside its scope
    exited,         \* self.exited: "unset" until exit() assigns it "True"
    sent,           \* commands handed to ws.send, in order
    data,           \* self.data: table name -> sequence of rows
    keys,           \* self.keys: table name -> sequence of key field names
    hpc,            \* delivery thread: "idle" or "loop" (inside a row loop)
    msg,            \* the message being handled, or the last one handled; << >> at first
    row,            \* index of the next row of msg.data the loop handles
    pre,            \* self.data as it was when msg was received
    preKeys,        \* self.keys as it was when msg was received
    outcome,        \* how the handling of msg ended
    inbox,          \* the messages of the server's script not sent yet
    budget,         \* how many more messages the server sends
    cb              \* how the error callback ended: "none" until it has run

vars == <<api_key, login, pc, ws, wst, sock, conn_timeout, exited, sent,
          data, keys, hpc, msg, row, pre, preKeys, outcome, inbox, budget, cb>>

callerVars == <<api_key, login, pc, ws, wst, conn_timeout, exited, sent>>

(***************************************************************************)
(* Bounds of the model.                                                    *)
(***************************************************************************)
\* messages delivered after construction in SpecTable
MaxMsgs == 3
\* rows in one update or delete message
MaxRows == 2
\* messages delivered during and after construction in Spec
MaxLifeMsgs == 7
\* ticks the connect wait is followed beyond its budget
MaxExtraTicks == 2

None == "None"

\* the result of a call: a value, or the exception it raised
Ok(v) == [ok |-> TRUE, val |-> v]
Err(e) == [ok |-> FALSE, err |-> e]

(***************************************************************************)
(* Python dictionaries and lists.                                          *)
(***************************************************************************)
\* key in d
Has(d, f) == f \in DOMAIN d

\* d[table] = value, on a dictionary modelled as a function
Put(d, k, v) == [x \in DOMAIN d \cup {k} |-> IF x = k THEN v ELSE d[x]]

\* dict.update: fields of upd overwrite or extend item, the others keep their value
DictUpdate(item, upd) ==
    [f \in DOMAIN item \cup DOMAIN upd |-> IF f \in DOMAIN upd THEN upd[f] ELSE item[f]]

\* the sequence s without its element at index i
RemoveAt(s, i) == SubSeq(s, 1, i - 1) \o SubSeq(s, i + 1, Len(s))

\* index of the first element of s equal to x, 0 when there is none
RECURSIVE IndexFrom(_, _, _)
IndexFrom(s, x, i) ==
    IF i > Len(s) THEN 0
    ELSE IF s[i] = x THEN i
    ELSE IndexFrom(s, x, i + 1)

\* a removal that drops every element equal to x
ListRemoveAll(s, x) ==
    LET differs(e) == e # x
    IN  IF IndexFrom(s, x, 1) = 0 THEN Err("ValueError") ELSE Ok(SelectSeq(s, differs))

\* list.remove(x): drops the first element equal to x, ValueError when absent
ListRemove(s, x) ==
    LET i == IndexFrom(s, x, 1)
    IN  IF i = 0 THEN Err("ValueError") ELSE Ok(RemoveAt(s, i))

\* str.startswith
StartsWith(s, p) == Len(p) <= Len(s) /\ SubSeq(s, 1, Len(p)) = p

(***************************************************************************)
(* findItemByKeys(keys, table, matchData), lines 259-266.  The result is   *)
(* the index of the item returned, 0 for None (no item matched), or -1     *)
(* when a key lookup raises KeyError.  The inner loop does not break on a  *)
(* mismatch, so every key of `keys` is looked up in every item visited.    *)
(***************************************************************************)
KeyErrorIn(ks, item, matchData) ==
    \E k \in 1..Len(ks) : ~Has(item, ks[k]) \/ ~Has(matchData, ks[k])

\* a matching that stops at the first key field
MatchedFirstKey(ks, item, matchData) ==
    Len(ks) = 0 \/ item[ks[1]] = matchData[ks[1]]

Matched(ks, item, matchData) ==
    \A k \in 1..Len(ks) : item[ks[k]] = matchData[ks[k]]

RECURSIVE FindFrom(_, _, _, _)
FindFrom(ks, table, matchData, i) ==
    IF i > Len(table) THEN 0
    ELSE IF KeyErrorIn(ks, table[i], matchData) THEN -1
    ELSE IF Matched(ks, table[i], matchData) THEN i
    ELSE FindFrom(ks, table, matchData, i + 1)

findItemByKeys(ks, table, matchData) == FindFrom(ks, table, matchData, 1)

(***************************************************************************)
(* Query surface, lines 86-119.  The reads are functions of self.data; a   *)
(* lookup that raises is modelled by the name of the exception.  Prices    *)
(* and tick sizes are integers counting hundredths.                        *)
(***************************************************************************)
RECURSIVE CeilLog10(_)
\* least k with 10^k >= n, for n >= 1
CeilLog10(n) == IF n <= 1 THEN 0 ELSE 1 + CeilLog10((n + 9) \div 10)

RECURSIVE FloorLog10(_)
\* greatest k with 10^k <= n, for n >= 1
FloorLog10(n) == IF n < 10 THEN 0 ELSE 1 + FloorLog10(n \div 10)

\* int(math.fabs(math.log10(tickSize))), tickSize given in hundredths
tickLogOf(tickSize) ==
    IF tickSize <= 100 THEN 2 - CeilLog10(tickSize) ELSE FloorLog10(tickSize) - 2

\* get_instrument's result: the first instrument row with tickLog added
get_instrument_row(d) ==
    IF ~Has(d, "instrument") THEN Err("KeyError")
    ELSE IF Len(d["instrument"]) = 0 THEN Err("IndexError")
    ELSE IF ~Has(d["instrument"][1], "tickSize") THEN Err("KeyError")
    ELSE IF d["instrument"][1]["tickSize"] <= 0 THEN Err("ValueError")
    ELSE Ok(DictUpdate(d["instrument"][1],
                       [tickLog |-> tickLogOf(d["instrument"][1]["tickSize"])]))

\* round(x, ndigits) for x = n/200: the nearest multiple of 10^-ndigits, ties to
\* even; the result again counts 1/200
RoundHalfEven(n, ndigits) ==
    LET q == IF ndigits = 0 THEN 200 ELSE IF ndigits = 1 THEN 20
             ELSE IF ndigits = 2 THEN 2 ELSE 1
        lo == n \div q
        r  == n % q
    IN  IF 2 * r < q THEN lo * q
        ELSE IF 2 * r > q THEN (lo + 1) * q
        ELSE IF lo % 2 = 0 THEN lo * q ELSE (lo + 1) * q

\* get_ticker, lines 92-105.  Prices are numbers, on which float(v or 0) is v.
get_ticker(d) ==
    IF ~Has(d, "quote") THEN Err("KeyError")
    ELSE IF Len(d["quote"]) = 0 THEN Err("IndexError")
    ELSE IF ~Has(d, "trade") THEN Err("KeyError")
    ELSE IF Len(d["trade"]) = 0 THEN Err("IndexError")
    ELSE LET lastQuote == d["quote"][Len(d["quote"])]
             lastTrade == d["trade"][Len(d["trade"])]
         IN  IF ~Has(lastTrade, "price") THEN Err("KeyError")
             ELSE IF ~Has(lastQuote, "bidPrice") THEN Err("KeyError")
             ELSE IF ~Has(lastQuote, "askPrice") THEN Err("KeyError")
             ELSE IF ~Has(d, "instrument") THEN Err("KeyError")
             ELSE IF Len(d["instrument"]) = 0 THEN Err("IndexError")
             ELSE IF ~Has(d["instrument"][1], "tickLog") THEN Err("KeyError")
             ELSE LET tl == d["instrument"][1]["tickLog"]
                  IN  Ok([last |-> RoundHalfEven(2 * lastTrade["price"], tl),
                          buy  |-> RoundHalfEven(2 * lastQuote["bidPrice"], tl),
                          sell |-> RoundHalfEven(2 * lastQuote["askPrice"], tl),
                          mid  |-> RoundHalfEven(lastQuote["bidPrice"]
                                                 + lastQuote["askPrice"], tl)])

funds(d) ==
    IF ~Has(d, "margin") THEN Err("KeyError")
    ELSE IF Len(d["margin"]) = 0 THEN Err("IndexError")
    ELSE Ok(d["margin"][1])

market_depth(d) ==
    IF ~Has(d, "orderBook25") THEN Err("KeyError") ELSE Ok(d["orderBook25"])

recent_trades(d) == IF ~Has(d, "trade") THEN Err("KeyError") ELSE Ok(d["trade"])

\* a filter on the prefix alone
KeepsOrderAnyQty(o, clOrdIDPrefix) ==
    IF ~Has(o, "clOrdID") THEN Err("KeyError")
    ELSE Ok(StartsWith(o["clOrdID"], clOrdIDPrefix))

\* the test of the list comprehension at line 116; the `and` does not look up
\* leavesQty when the prefix test fails
KeepsOrder(o, clOrdIDPrefix) ==
    IF ~Has(o, "clOrdID") THEN Err("KeyError")
    ELSE IF ~StartsWith(o["clOrdID"], clOrdIDPrefix) THEN Ok(FALSE)
    ELSE IF ~Has(o, "leavesQty") THEN Err("KeyError")
    ELSE Ok(o["leavesQty"] > 0)

\* the list comprehension at line 116, from row i on
RECURSIVE OpenFrom(_, _, _)
OpenFrom(orders, clOrdIDPrefix, i) ==
    IF i > Len(orders) THEN Ok(<< >>)
    ELSE LET keep == KeepsOrder(orders[i], clOrdIDPrefix)
             rest == OpenFrom(orders, clOrdIDPrefix, i + 1)
         IN  IF ~keep.ok THEN keep
             ELSE IF ~rest.ok THEN rest
             ELSE IF keep.val THEN Ok(<<orders[i]>> \o rest.val)
             ELSE rest

open_orders(d, clOrdIDPrefix) ==
    IF ~Has(d, "order") THEN Err("KeyError") ELSE OpenFrom(d["order"], clOrdIDPrefix, 1)

(***************************************************************************)
(* __on_message, lines 196-245.  A message is a function from the fields   *)
(* it carries (subscribe, table, action, data, keys) to their values.  The *)
(* outcome of handling one is "ok" (the handler ran to its end), "return"  *)
(* (the early return of line 231) or "error" (an exception caught and      *)
(* logged at lines 244-245).                                               *)
(***************************************************************************)
\* line 201
TableOf(m) == IF Has(m, "table") THEN m["table"] ELSE None

\* line 202
ActionOf(m) == IF Has(m, "action") THEN m["action"] ELSE None

\* a table creation that starts the store afresh
CreateTableFresh(d, table) ==
    IF Has(d, table) THEN d ELSE [x \in {table} |-> << >>]

\* lines 208-209
CreateTable(d, table) == IF Has(d, table) THEN d ELSE Put(d, table, << >>)

\* line 218: self.data[table] += message['data']
PartialRows(old, new) == old \o new

\* lines 216-221, on the store d, k in which the table exists
ApplyPartial(m, d, k) ==
    IF ~Has(m, "data") THEN [data |-> d, keys |-> k, outcome |-> "error"]
    ELSE LET table == TableOf(m)
             d2 == Put(d, table, PartialRows(d[table], m["data"]))
         IN  IF ~Has(m, "keys") THEN [data |-> d2, keys |-> k, outcome |-> "error"]
             ELSE [data |-> d2, keys |-> Put(k, table, m["keys"]), outcome |-> "ok"]

\* lines 222-224
ApplyInsert(m, d, k) ==
    IF ~Has(m, "data") THEN [data |-> d, keys |-> k, outcome |-> "error"]
    ELSE [data |-> Put(d, TableOf(m), d[TableOf(m)] \o m["data"]),
          keys |-> k, outcome |-> "ok"]

\* an eviction that keeps an order whose leavesQty is exactly 0
EvictNegative(table, item, rows) ==
    IF table # "order" THEN Ok(rows)
    ELSE IF ~Has(item, "leavesQty") THEN Err("KeyError")
    ELSE IF item["leavesQty"] < 0 THEN ListRemove(rows, item)
    ELSE Ok(rows)

\* lines 233-235, on the rows of the table after item was merged
EvictFilled(table, item, rows) ==
    IF table # "order" THEN Ok(rows)
    ELSE IF ~Has(item, "leavesQty") THEN Err("KeyError")
    ELSE IF item["leavesQty"] <= 0 THEN ListRemove(rows, item)
    ELSE Ok(rows)

\* line 230: `not item` holds for None and for an empty dictionary
NotItem(rows, i) == i = 0 \/ DOMAIN rows[i] = {}

\* an update that appends the row when no item matches it
UpdateRowUpsert(table, updateData, d, k) ==
    IF ~Has(k, table) THEN [data |-> d, outcome |-> "error"]
    ELSE LET i == findItemByKeys(k[table], d[table], updateData)
         IN  IF i = -1 THEN [data |-> d, outcome |-> "error"]
             ELSE IF NotItem(d[table], i)
             THEN [data |-> Put(d, table, Append(d[table], updateData)),
                   outcome |-> "next"]
             ELSE LET item == DictUpdate(d[table][i], updateData)
                      merged == [d EXCEPT ![table][i] = item]
                      kept == EvictFilled(table, item, merged[table])
                  IN  IF ~kept.ok THEN [data |-> merged, outcome |-> "error"]
                      ELSE [data |-> Put(merged, table, kept.val), outcome |-> "next"]

\* one pass of the loop at lines 228-235; outcome "next" goes on to the next row
UpdateRow(table, updateData, d, k) ==
    IF ~Has(k, table) THEN [data |-> d, outcome |-> "error"]
    ELSE LET i == findItemByKeys(k[table], d[table], updateData)
         IN  IF i = -1 THEN [data |-> d, outcome |-> "error"]
             ELSE IF NotItem(d[table], i) THEN [data |-> d, outcome |-> "return"]
             ELSE LET item == DictUpdate(d[table][i], updateData)
                      merged == [d EXCEPT ![table][i] = item]
                      kept == EvictFilled(table, item, merged[table])
                  IN  IF ~kept.ok THEN [data |-> merged, outcome |-> "error"]
                      ELSE [data |-> Put(merged, table, kept.val), outcome |-> "next"]

\* one pass of the loop at lines 239-241; list.remove(None) raises ValueError
DeleteRow(table, deleteData, d, k) ==
    IF ~Has(k, table) THEN [data |-> d, outcome |-> "error"]
    ELSE LET i == findItemByKeys(k[table], d[table], deleteData)
         IN  IF i <= 0 THEN [data |-> d, outcome |-> "error"]
             ELSE LET kept == ListRemove(d[table], d[table][i])
                  IN  [data |-> Put(d, table, kept.val), outcome |-> "next"]

IsLoopAction(a) == a \in {"update", "delete"}

\* The delivery thread receives m and runs the handler up to the row loop of an
\* update or a delete; every other message is handled to the end.
OnMessage(m) ==
    /\ wst /\ sock = "connected" /\ hpc = "idle" /\ budget > 0
    /\ budget' = budget - 1
    /\ msg' = m /\ pre' = data /\ preKeys' = keys
    /\ LET table == TableOf(m)
           action == ActionOf(m)
           created == CreateTable(data, table)
       IN  IF Has(m, "subscribe") \/ action = None
           THEN /\ UNCHANGED <<data, keys>>
                /\ hpc' = "idle" /\ row' = 0 /\ outcome' = "ok"
           ELSE IF action = "partial" \/ action = "insert"
           THEN LET r == IF action = "partial" THEN ApplyPartial(m, created, keys)
                         ELSE ApplyInsert(m, created, keys)
                IN  /\ data' = r.data /\ keys' = r.keys
                    /\ hpc' = "idle" /\ row' = 0 /\ outcome' = r.outcome
           ELSE IF IsLoopAction(action)
           THEN /\ data' = created /\ keys' = keys
                /\ IF ~Has(m, "data")
                   THEN hpc' = "idle" /\ row' = 0 /\ outcome' = "error"
                   ELSE IF Len(m["data"]) = 0
                   THEN hpc' = "idle" /\ row' = 0 /\ outcome' = "ok"
                   ELSE hpc' = "loop" /\ row' = 1 /\ outcome' = "running"
           ELSE /\ data' = created /\ keys' = keys
                /\ hpc' = "idle" /\ row' = 0 /\ outcome' = "error"
    /\ UNCHANGED <<callerVars, sock, cb>>

\* a loop in which an exception leaves the handler and ends the delivery loop
LoopStepFatal(r) ==
    /\ data' = r.data
    /\ IF r.outcome = "next" /\ row < Len(msg["data"])
       THEN hpc' = "loop" /\ row' = row + 1 /\ outcome' = "running"
       ELSE /\ hpc' = "idle" /\ row' = 0
            /\ outcome' = IF r.outcome = "next" THEN "ok" ELSE r.outcome
    /\ sock' = IF r.outcome = "error" THEN "closed" ELSE sock
    /\ UNCHANGED <<callerVars, keys, msg, pre, preKeys, inbox, budget, cb>>

\* the end of one pass of a row loop
LoopStep(r) ==
    /\ data' = r.data
    /\ IF r.outcome = "next" /\ row < Len(msg["data"])
       THEN hpc' = "loop" /\ row' = row + 1 /\ outcome' = "running"
       ELSE /\ hpc' = "idle" /\ row' = 0
            /\ outcome' = IF r.outcome = "next" THEN "ok" ELSE r.outcome
    /\ UNCHANGED <<callerVars, sock, keys, msg, pre, preKeys, inbox, budget, cb>>

\* the delivery thread handles the next row of an update
OnUpdateRow ==
    /\ hpc = "loop" /\ ActionOf(msg) = "update"
    /\ LoopStep(UpdateRow(TableOf(msg), msg["data"][row], data, keys))

\* the delivery thread handles the next row of a delete
OnDeleteRow ==
    /\ hpc = "loop" /\ ActionOf(msg) = "delete"
    /\ LoopStep(DeleteRow(TableOf(msg), msg["data"][row], data, keys))

(***************************************************************************)
(* get_instrument, lines 86-90: the only query that writes; it stores      *)
(* tickLog in the instrument row held by the table.                        *)
(***************************************************************************)
GetInstrument ==
    /\ pc = "ready"
    /\ LET r == get_instrument_row(data)
       IN  data' = IF r.ok THEN [data EXCEPT !["instrument"][1] = r.val] ELSE data
    /\ UNCHANGED <<callerVars, sock, keys, hpc, msg, row, pre, preKeys, outcome, inbox, budget, cb>>

(***************************************************************************)
(* Construction, lines 58-80 and 121-194 (caller thread), and the          *)
(* transport's side of the connection (delivery thread).                   *)
(***************************************************************************)
\* line 139
ConnTimeout == 5

\* line 58, the default symbol
Symbol == "XBU24H"

\* line 150
NoAuth(key, user) == key = None /\ user = None

\* __get_auth, lines 148-169: the kind of header list returned, or SystemExit
get_auth(key, user) ==
    IF NoAuth(key, user) THEN Err("SystemExit")
    ELSE IF key = None THEN Ok("email") ELSE Ok("api-key")

\* a construction that builds the WebSocketApp before it looks at the credentials
ConnectThenAuth ==
    /\ pc = "connect"
    /\ ws' = "created"
    /\ pc' = IF get_auth(api_key, login).ok THEN "start_thread" ELSE "exit_no_auth"
    /\ UNCHANGED <<api_key, login, wst, sock, conn_timeout, exited, sent,
                   data, keys, hpc, msg, row, pre, preKeys, outcome, inbox, budget, cb>>

\* lines 125-131: the headers are computed before the WebSocketApp is built
Connect ==
    /\ pc = "connect"
    /\ IF get_auth(api_key, login).ok
       THEN ws' = "created" /\ pc' = "start_thread"
       ELSE ws' = ws /\ pc' = "exit_no_auth"
    /\ UNCHANGED <<api_key, login, wst, sock, conn_timeout, exited, sent,
                   data, keys, hpc, msg, row, pre, preKeys, outcome, inbox, budget, cb>>

\* lines 133-139
StartThread ==
    /\ pc = "start_thread"
    /\ wst' = TRUE /\ conn_timeout' = ConnTimeout /\ pc' = "connect_wait"
    /\ UNCHANGED <<api_key, login, ws, sock, exited, sent,
                   data, keys, hpc, msg, row, pre, preKeys, outcome, inbox, budget, cb>>

\* run_forever creates the socket
SockCreate ==
    /\ wst /\ sock = None
    /\ sock' = "connecting"
    /\ UNCHANGED <<callerVars, data, keys, hpc, msg, row, pre, preKeys, outcome, inbox, budget, cb>>

\* the socket reports connected
SockConnect ==
    /\ sock = "connecting"
    /\ sock' = "connected"
    /\ UNCHANGED <<callerVars, data, keys, hpc, msg, row, pre, preKeys, outcome, inbox, budget, cb>>

\* line 140: not self.ws.sock or not self.ws.sock.connected and conn_timeout
WaitCond(s, t) == s = None \/ (s # "connected" /\ t # 0)

\* lines 141-142
ConnectWaitTick ==
    /\ pc = "connect_wait"
    /\ WaitCond(sock, conn_timeout)
    /\ conn_timeout > -MaxExtraTicks
    /\ conn_timeout' = conn_timeout - 1
    /\ UNCHANGED <<api_key, login, pc, ws, wst, sock, exited, sent,
                   data, keys, hpc, msg, row, pre, preKeys, outcome, inbox, budget, cb>>

\* line 143
TimedOut(t) == t = 0

\* lines 143-146 once the loop has ended; exit() is lines 82-84
ConnectWaitEnd ==
    /\ pc = "connect_wait"
    /\ ~WaitCond(sock, conn_timeout)
    /\ IF TimedOut(conn_timeout)
       THEN exited' = "True" /\ sock' = "closed" /\ pc' = "exit_timeout"
       ELSE exited' = exited /\ sock' = sock /\ pc' = "push_account"
    /\ conn_timeout' = 0
    /\ UNCHANGED <<api_key, login, ws, wst, sent,
                   data, keys, hpc, msg, row, pre, preKeys, outcome, inbox, budget, cb>>

\* __send_command, lines 192-194
Command(op, args) == [op |-> op, args |-> args]

AccountTables == {"margin", "position", "order"}

SymbolTables == {"instrument", "trade", "orderBook25"}

\* line 181
PushAccount ==
    /\ pc = "push_account"
    /\ sent' = Append(sent, Command("getAccount", << >>))
    /\ pc' = "wait_account"
    /\ UNCHANGED <<api_key, login, ws, wst, sock, conn_timeout, exited,
                   data, keys, hpc, msg, row, pre, preKeys, outcome, inbox, budget, cb>>

\* an account priming that does not wait for its tables
WaitAccountNoGate ==
    /\ pc = "wait_account"
    /\ pc' = "push_symbol"
    /\ UNCHANGED <<api_key, login, ws, wst, sock, conn_timeout, exited, sent,
                   data, keys, hpc, msg, row, pre, preKeys, outcome, inbox, budget, cb>>

\* lines 183-184, when the loop ends
WaitAccount ==
    /\ pc = "wait_account"
    /\ AccountTables \subseteq DOMAIN data
    /\ pc' = "push_symbol"
    /\ UNCHANGED <<api_key, login, ws, wst, sock, conn_timeout, exited, sent,
                   data, keys, hpc, msg, row, pre, preKeys, outcome, inbox, budget, cb>>

\* line 188
PushSymbol ==
    /\ pc = "push_symbol"
    /\ sent' = Append(sent, Command("getSymbol", Symbol))
    /\ pc' = "wait_symbol"
    /\ UNCHANGED <<api_key, login, ws, wst, sock, conn_timeout, exited,
                   data, keys, hpc, msg, row, pre, preKeys, outcome, inbox, budget, cb>>

\* a symbol priming that gives up waiting
WaitSymbolGivesUp ==
    /\ pc = "wait_symbol"
    /\ pc' = "ready"
    /\ UNCHANGED <<api_key, login, ws, wst, sock, conn_timeout, exited, sent,
                   data, keys, hpc, msg, row, pre, preKeys, outcome, inbox, budget, cb>>

\* lines 189-190, when the loop ends, and line 80: __init__ returns
WaitSymbol ==
    /\ pc = "wait_symbol"
    /\ SymbolTables \subseteq DOMAIN data
    /\ pc' = "ready"
    /\ UNCHANGED <<api_key, login, ws, wst, sock, conn_timeout, exited, sent,
                   data, keys, hpc, msg, row, pre, preKeys, outcome, inbox, budget, cb>>

(***************************************************************************)
(* exit, lines 82-84, and the error callback, lines 247-250.  __init__     *)
(* does not assign self.exited, so until exit() has run the attribute does *)
(* not exist and reading it raises AttributeError.                         *)
(***************************************************************************)
\* the caller tells a constructed instance to exit
Exit ==
    /\ pc = "ready" /\ exited # "True"
    /\ exited' = "True" /\ sock' = "closed"
    /\ UNCHANGED <<api_key, login, pc, ws, wst, conn_timeout, sent,
                   data, keys, hpc, msg, row, pre, preKeys, outcome, inbox, budget, cb>>

\* __on_error: how the callback ends for a value of self.exited
on_error(ex) ==
    IF ex = "unset" THEN "AttributeError"
    ELSE IF ex # "True" THEN "SystemExit"
    ELSE "returned"

\* the delivery thread reports the first transport error, between two messages
OnError ==
    /\ wst /\ hpc = "idle" /\ cb = "none"
    /\ cb' = on_error(exited)
    /\ UNCHANGED <<callerVars, sock, data, keys, hpc, msg, row, pre, preKeys,
                   outcome, inbox, budget>>

(***************************************************************************)
(* The messages the server sends.                                          *)
(***************************************************************************)
Partial(t, ks, rows) == [table |-> t, action |-> "partial", keys |-> ks, data |-> rows]

TableMsg(t, a, rows) == [table |-> t, action |-> a, data |-> rows]

\* the non-empty sequences of at most n elements of S
SeqsUpTo(S, n) == UNION {[1..k -> S] : k \in 1..n}

marginRow == [account |-> 1, amount |-> 100]
positionRow == [account |-> 1, symbol |-> Symbol, currentQty |-> 0]
instrumentRow == [symbol |-> Symbol, tickSize |-> 50]
tradeRow == [symbol |-> Symbol, price |-> 10037]
quoteRow == [symbol |-> Symbol, bidPrice |-> 10000, askPrice |-> 10050]

o1 == [orderID |-> 1, clOrdID |-> "bot-1", leavesQty |-> 3]
o2 == [orderID |-> 2, clOrdID |-> "bot-2", leavesQty |-> 0]
o3 == [orderID |-> 3, clOrdID |-> "other-1", leavesQty |-> 5]

b1 == [symbol |-> "X", level |-> 1, price |-> 98]
b2 == [symbol |-> "X", level |-> 2, price |-> 98]
b3 == [symbol |-> "Y", level |-> 1, price |-> 98]

OrderKeys == <<"orderID">>
BookKeys == <<"symbol", "level">>

\* the first image of each table
Image ==
    {Partial("margin", <<"account">>, <<marginRow>>),
     Partial("position", <<"account", "symbol">>, <<positionRow>>),
     Partial("order", OrderKeys, <<o1>>),
     Partial("instrument", <<"symbol">>, <<instrumentRow>>),
     Partial("trade", << >>, <<tradeRow>>),
     Partial("orderBook25", BookKeys, <<b1>>),
     Partial("quote", << >>, <<quoteRow>>)}

\* what the server sends while the instance is constructed
LifeMsgs ==
    Image \cup
    {TableMsg("margin", "update", <<[account |-> 1, amount |-> 90]>>),
     TableMsg("order", "delete", <<[orderID |-> 1]>>)}

OrderUpdates ==
    {[orderID |-> 1, leavesQty |-> 0], [orderID |-> 2, price |-> 7],
     [orderID |-> 3, leavesQty |-> 2]}

OrderDeletes == {[orderID |-> 1], [orderID |-> 3]}

BookUpdates ==
    {[symbol |-> "X", level |-> 1, price |-> 99],
     [symbol |-> "Y", level |-> 2, price |-> 97]}

BookDeletes == {[symbol |-> "X", level |-> 1], [symbol |-> "X", level |-> 2]}

\* what the server sends to a constructed instance
TableMsgs ==
    {Partial("order", OrderKeys, <<o1, o2, o3>>),
     Partial("order", <<"clOrdID">>, <<o3>>),
     TableMsg("order", "insert", <<o2>>),
     TableMsg("order", "insert", <<o3, o1>>),
     Partial("orderBook25", BookKeys, <<b2, b3>>),
     TableMsg("orderBook25", "insert", <<b1>>),
     Partial("quote", << >>, <<quoteRow>>),
     TableMsg("quote", "update", <<quoteRow>>),
     TableMsg("trade", "bogus", <<tradeRow>>),
     [table |-> "order", action |-> "partial"],
     TableMsg("orderBook25", "partial", <<b2>>),
     [subscribe |-> "margin", success |-> TRUE]}
    \cup {TableMsg("order", "update", rows) : rows \in SeqsUpTo(OrderUpdates, MaxRows)}
    \cup {TableMsg("order", "delete", rows) : rows \in SeqsUpTo(OrderDeletes, MaxRows)}
    \cup {TableMsg("orderBook25", "update", rows) : rows \in SeqsUpTo(BookUpdates, MaxRows)}
    \cup {TableMsg("orderBook25", "delete", rows) : rows \in SeqsUpTo(BookDeletes, MaxRows)}

\* during construction the server sends the messages of LifeMsgs, each at most
\* once, in any order
ScriptSends ==
    \E m \in inbox : OnMessage(m) /\ inbox' = inbox \ {m}

\* to a constructed instance the server sends any message of TableMsgs at any time
ServerSends ==
    \E m \in TableMsgs : OnMessage(m) /\ inbox' = inbox

(***************************************************************************)
(* Specifications.                                                         *)
(***************************************************************************)
\* __init__ has run lines 60-68
Init ==
    /\ api_key \in {None, "FOO"}
    /\ login \in {None, "user"}
    /\ pc = "connect"
    /\ ws = None /\ wst = FALSE /\ sock = None
    /\ conn_timeout = 0
    /\ exited = "unset"
    /\ sent = << >>
    /\ data = << >> /\ keys = << >>
    /\ hpc = "idle" /\ msg = << >> /\ row = 0
    /\ pre = << >> /\ preKeys = << >> /\ outcome = "none"
    /\ inbox = LifeMsgs /\ budget = MaxLifeMsgs
    /\ cb = "none"

Next ==
    \/ Connect
    \/ StartThread
    \/ SockCreate
    \/ SockConnect
    \/ ConnectWaitTick
    \/ ConnectWaitEnd
    \/ PushAccount
    \/ WaitAccount
    \/ PushSymbol
    \/ WaitSymbol
    \/ ScriptSends
    \/ OnUpdateRow
    \/ OnDeleteRow
    \/ GetInstrument
    \/ Exit
    \/ OnError

Spec == Init /\ [][Next]_vars

\* the steps of the two priming sequences on the caller thread
PrimingStep ==
    \/ PushAccount
    \/ WaitAccount
    \/ PushSymbol
    \/ WaitSymbol

\* the caller thread is scheduled again and again while it primes: each sleep
\* of lines 184 and 190 returns and the loop condition is evaluated again
FairSpec == Spec /\ WF_pc(PrimingStep)

\* the store once the six required tables have each received their first image
Primed(images) ==
    [t \in {m["table"] : m \in images} |->
        (CHOOSE m \in images : m["table"] = t)]

\* __init__ has returned: the API-key instance of line 278, primed by the first
\* image of each required table
InitTable ==
    LET first == Primed({m \in Image : m["table"] \in AccountTables \cup SymbolTables})
    IN  /\ api_key = "FOO" /\ login = None
        /\ pc = "ready"
        /\ ws = "created" /\ wst = TRUE /\ sock = "connected"
        /\ conn_timeout = 0
        /\ exited = "unset"
        /\ sent = <<Command("getAccount", << >>), Command("getSymbol", Symbol)>>
        /\ data = [t \in DOMAIN first |-> first[t]["data"]]
        /\ keys = [t \in DOMAIN first |-> first[t]["keys"]]
        /\ hpc = "idle" /\ msg = << >> /\ row = 0
        /\ pre = << >> /\ preKeys = << >> /\ outcome = "none"
        /\ inbox = {} /\ budget = MaxMsgs
        /\ cb = "none"

\* the caller thread only reads, which changes nothing
NextTable ==
    \/ ServerSends
    \/ OnUpdateRow
    \/ OnDeleteRow

SpecTable == InitTable /\ [][NextTable]_vars

(***************************************************************************)
(* Properties.                                                             *)
(***************************************************************************)
\* a message has been handled to its end, and no other one received since
Handled == hpc = "idle" /\ outcome # "none"

HandledAction(a) == Handled /\ ActionOf(msg) = a

\* a is a subsequence of b
RECURSIVE IsSubSeq(_, _)
IsSubSeq(a, b) ==
    IF Len(a) = 0 THEN TRUE
    ELSE IF Len(b) = 0 THEN FALSE
    ELSE IF Head(a) = Head(b) THEN IsSubSeq(Tail(a), Tail(b))
    ELSE IsSubSeq(a, Tail(b))

\* row and u carry equal values in every field of the key set ks
SameKeys(ks, r, u) ==
    \A k \in 1..Len(ks) :
        /\ ks[k] \in DOMAIN r /\ ks[k] \in DOMAIN u
        /\ r[ks[k]] = u[ks[k]]

\* C1: once a partial for a table that already had a key set (an earlier partial)
\* has been handled, the table holds exactly the rows of this partial and the
\* key set is the one this partial declares.
C1_PartialReplaces ==
    (HandledAction("partial") /\ outcome = "ok" /\ Has(preKeys, TableOf(msg)))
        => /\ data[TableOf(msg)] = msg["data"]
           /\ keys[TableOf(msg)] = msg["keys"]

\* C2: once an update for a table with a key set of several fields has been
\* handled, the table has as many rows as before, every row that differs from
\* each update row in some key field is as it was, and a row that changed equals
\* some update row in every key field and carries that update row's fields.
C2_UpdateMatchesAllKeys ==
    (/\ HandledAction("update")
     /\ Has(preKeys, TableOf(msg))
     /\ Len(preKeys[TableOf(msg)]) >= 2
     /\ TableOf(msg) # "order")
        => LET T == TableOf(msg)
               ks == preKeys[T]
               us == {msg["data"][j] : j \in 1..Len(msg["data"])}
           IN  /\ Len(data[T]) = Len(pre[T])
               /\ \A i \in 1..Len(pre[T]) :
                    \/ data[T][i] = pre[T][i]
                    \/ \E u \in us :
                         /\ SameKeys(ks, pre[T][i], u)
                         /\ \A f \in DOMAIN u : data[T][i][f] = u[f]
                         /\ \A f \in DOMAIN pre[T][i] \ DOMAIN u :
                              data[T][i][f] = pre[T][i][f]

\* C2 happens: an update changed the price of one book row and left alone a row
\* with the same symbol and another level, and a row with the same level and
\* another symbol.
C2_Witness ==
    /\ HandledAction("update") /\ TableOf(msg) = "orderBook25"
    /\ \E i, j, l \in 1..Len(data["orderBook25"]) :
         /\ Len(pre["orderBook25"]) = Len(data["orderBook25"])
         /\ data["orderBook25"][i] # pre["orderBook25"][i]
         /\ data["orderBook25"][j] = pre["orderBook25"][j]
         /\ data["orderBook25"][l] = pre["orderBook25"][l]
         /\ pre["orderBook25"][j]["symbol"] = pre["orderBook25"][i]["symbol"]
         /\ pre["orderBook25"][j]["level"] # pre["orderBook25"][i]["level"]
         /\ pre["orderBook25"][l]["symbol"] # pre["orderBook25"][i]["symbol"]
         /\ pre["orderBook25"][l]["level"] = pre["orderBook25"][i]["level"]
\* the prefixes open_orders is asked for
Prefixes == {"", "bot", "bot-1", "other"}

\* index of the first row equal to u in every field of ks, 0 when there is none
FirstWithKeys(ks, rows, u) ==
    IF \E i \in 1..Len(rows) : SameKeys(ks, rows[i], u)
    THEN CHOOSE i \in 1..Len(rows) :
            /\ SameKeys(ks, rows[i], u)
            /\ \A j \in 1..(i - 1) : ~SameKeys(ks, rows[j], u)
    ELSE 0

\* the delivery thread handles row `row` of an update for the order table
OrderUpdateStep ==
    /\ hpc = "loop" /\ ActionOf(msg) = "update" /\ TableOf(msg) = "order"
    /\ row' # row

\* C3: when a row of an update for table order is matched to an existing row and
\* leaves that row's leavesQty <= 0, the step removes exactly that row from the
\* table, and open_orders does not return it; and in every state open_orders
\* returns no row whose leavesQty is <= 0.
C3_OrderEviction ==
    /\ [][OrderUpdateStep /\ Has(keys, "order") =>
            LET u == msg["data"][row]
                i == FirstWithKeys(keys["order"], data["order"], u)
                left == IF Has(u, "leavesQty") THEN u["leavesQty"]
                        ELSE data["order"][i]["leavesQty"]
            IN  (i # 0 /\ left <= 0) =>
                    /\ Len(data'["order"]) = Len(data["order"]) - 1
                    /\ \A j \in 1..Len(data'["order"]) :
                         data'["order"][j] = data["order"][IF j < i THEN j ELSE j + 1]
                    /\ \A p \in Prefixes :
                         \A j \in 1..Len(open_orders(data', p).val) :
                            open_orders(data', p).val[j]
                                # DictUpdate(data["order"][i], u)
         ]_vars
    /\ [](Has(data, "order") =>
            \A p \in Prefixes :
                /\ open_orders(data, p).ok
                /\ \A j \in 1..Len(open_orders(data, p).val) :
                     open_orders(data, p).val[j]["leavesQty"] > 0)

\* C3 happens: an update has brought the leavesQty of an open order that
\* open_orders returned to 0, and the row is gone from the table and from
\* open_orders.
C3_Witness ==
    /\ HandledAction("update") /\ TableOf(msg) = "order" /\ outcome = "ok"
    /\ Len(msg["data"]) = 1
    /\ Has(msg["data"][1], "leavesQty") /\ msg["data"][1]["leavesQty"] <= 0
    /\ \E i \in 1..Len(pre["order"]) :
         /\ SameKeys(preKeys["order"], pre["order"][i], msg["data"][1])
         /\ pre["order"][i]["leavesQty"] > 0
         /\ \E j \in 1..Len(open_orders(pre, "bot").val) :
              open_orders(pre, "bot").val[j] = pre["order"][i]
         /\ Len(data["order"]) = Len(pre["order"]) - 1
         /\ \A j \in 1..Len(data["order"]) :
              data["order"][j]["orderID"] # pre["order"][i]["orderID"]
         /\ \A j \in 1..Len(open_orders(data, "bot").val) :
              open_orders(data, "bot").val[j]["orderID"] # pre["order"][i]["orderID"]
\* the rows of `rows` that no row of the message equals in every field of ks
Unnamed(ks, rows, m) ==
    LET named(r) == \E j \in 1..Len(m["data"]) : SameKeys(ks, r, m["data"][j])
        unnamed(r) == ~named(r)
    IN  SelectSeq(rows, unnamed)

\* C4: once a delete whose rows each matched an existing row has been handled,
\* the table has lost one row per row of the message, what is left is a
\* subsequence of the former table (the rows kept are unchanged and in their
\* order), and every row that no row of the message names is still there.
C4_DeleteRemovesOnlyNamed ==
    (HandledAction("delete") /\ outcome = "ok")
        => LET T == TableOf(msg)
           IN  /\ Len(data[T]) = Len(pre[T]) - Len(msg["data"])
               /\ IsSubSeq(data[T], pre[T])
               /\ Unnamed(preKeys[T], data[T], msg) = Unnamed(preKeys[T], pre[T], msg)

\* C4 happens: a delete removed a row of a table that also held a row the
\* message does not name; two rows or more are left, one of them a duplicate of
\* a row the message names.
C4_Witness ==
    /\ HandledAction("delete") /\ outcome = "ok"
    /\ Len(data[TableOf(msg)]) >= 2
    /\ Len(data[TableOf(msg)]) < Len(pre[TableOf(msg)])
    /\ Len(Unnamed(preKeys[TableOf(msg)], pre[TableOf(msg)], msg)) >= 1
    /\ Len(Unnamed(preKeys[TableOf(msg)], data[TableOf(msg)], msg))
         < Len(data[TableOf(msg)])

\* C5 as claimed: once an update for a table that was not in the store (no
\* partial or insert came before) has been handled, the store and the key sets
\* are what they were, no table has been created, and no exception left the
\* handler.
C5_EarlyUpdateNoEffect ==
    (HandledAction("update") /\ ~Has(pre, TableOf(msg)))
        => /\ data = pre
           /\ keys = preKeys
           /\ outcome \in {"ok", "return", "error"}

\* C5 as amended: once an update for a table that held no row (it was absent or
\* empty) has been handled, every table that existed has its former rows, the
\* key sets are what they were, the only possible new table is the one the
\* update names, and it is empty; the update was dropped by the early return or
\* by the handler's except clause.
C5_EarlyUpdateOnlyCreatesTable ==
    (/\ HandledAction("update")
     /\ Len(msg["data"]) >= 1
     /\ (Has(pre, TableOf(msg)) => pre[TableOf(msg)] = << >>))
        => /\ \A t \in DOMAIN pre : data[t] = pre[t]
           /\ DOMAIN data = DOMAIN pre \cup {TableOf(msg)}
           /\ data[TableOf(msg)] = << >>
           /\ keys = preKeys
           /\ outcome \in {"return", "error"}

\* C5 happens: an update for a table never seen before has been handled, and
\* the table now exists.
C5_Witness ==
    /\ HandledAction("update")
    /\ ~Has(pre, TableOf(msg))
    /\ Has(data, TableOf(msg))
    /\ Len(msg["data"]) >= 1

\* C5 happens on a table that exists and is empty: the update ends by the early
\* return
C5_WitnessEmptyTable ==
    /\ HandledAction("update")
    /\ Has(pre, TableOf(msg)) /\ pre[TableOf(msg)] = << >>
    /\ outcome = "return"

\* C8: in every state open_orders(prefix) returns, without error, the rows of
\* table order whose clOrdID starts with prefix and whose leavesQty is > 0, in
\* table order.
C8_OpenOrdersFilter ==
    Has(data, "order") =>
        \A p \in Prefixes :
            LET open(o) == /\ Len(p) <= Len(o["clOrdID"])
                           /\ SubSeq(o["clOrdID"], 1, Len(p)) = p
                           /\ o["leavesQty"] > 0
            IN  /\ open_orders(data, p).ok
                /\ open_orders(data, p).val = SelectSeq(data["order"], open)

\* C8 happens: the table holds an open order with prefix bot, an order with
\* prefix bot and leavesQty 0 (added by insert or partial), and an open order
\* with another prefix; open_orders("bot") returns some rows, and fewer than
\* the table holds.
C8_Witness ==
    /\ Has(data, "order")
    /\ \E i, j, l \in 1..Len(data["order"]) :
         /\ data["order"][i] = o1
         /\ data["order"][j] = o2
         /\ data["order"][l] = o3
    /\ open_orders(data, "bot").ok
    /\ Len(open_orders(data, "bot").val) >= 1
    /\ \A j \in 1..Len(open_orders(data, "bot").val) :
         open_orders(data, "bot").val[j] = o1
\* C6: when __init__ returns, each of the six required tables has received a
\* partial (its key set is known), and funds, get_instrument, market_depth and
\* recent_trades return data.
C6_ReadyTablesPrimed ==
    [][(pc # "ready" /\ pc' = "ready") =>
          /\ \A t \in AccountTables \cup SymbolTables : Has(keys', t)
          /\ funds(data').ok
          /\ get_instrument_row(data').ok
          /\ market_depth(data').ok
          /\ recent_trades(data').ok
      ]_vars

\* C7: in every state after __init__ has returned, get_ticker returns a ticker.
C7_TickerSafe == pc = "ready" => get_ticker(data).ok

\* C9: the connect wait takes at most ConnTimeout ticks, and a wait that ended
\* by timeout has closed the transport and ended the session.
C9_ConnectWaitBounded ==
    /\ pc = "connect_wait" => conn_timeout >= 0
    /\ pc = "exit_timeout" => sock = "closed" /\ exited = "True"

\* C10: without API key and without login the transport is never created, the
\* delivery thread never started, no socket opened and no command sent; the
\* caller thread is at the start of __connect or has exited.
C10_NoCredentialsAborts ==
    (api_key = None /\ login = None)
        => /\ ws = None
           /\ ~wst
           /\ sock = None
           /\ sent = << >>
           /\ pc \in {"connect", "exit_no_auth"}

\* C10 happens: construction without credentials has ended by sys.exit
C10_Witness == api_key = None /\ login = None /\ pc = "exit_no_auth"

\* C11: when the error callback runs, it ends the session by sys.exit if exit()
\* has not been called on the instance (also when it never was), and returns
\* without ending anything once exit() has been called.
C11_ErrorFatalUnlessExited ==
    [][(cb = "none" /\ cb' # "none") =>
          cb' = IF exited = "True" THEN "returned" ELSE "SystemExit"]_vars

\* C12: after a message whose handling raised (unknown action, missing data or
\* keys, update or delete without key set, delete without matching row) the
\* handler has returned, the delivery thread is idle, the connection is open and
\* nothing ended the session; and the message received next is applied by its
\* action: the rows of a partial or insert are appended, the keys of a partial
\* stored, the row loop of an update or delete entered.
C12_ErrorsAbsorbed ==
    /\ [](outcome = "error" =>
            /\ wst /\ sock = "connected" /\ hpc = "idle"
            /\ cb = "none" /\ pc = "ready")
    /\ [][(outcome = "error" /\ budget' # budget) =>
            LET m == msg'
                T == TableOf(m)
                old == IF Has(data, T) THEN data[T] ELSE << >>
            IN  /\ (ActionOf(m) \in {"partial", "insert"} /\ Has(m, "data"))
                      => data'[T] = old \o m["data"]
                /\ (ActionOf(m) = "insert" /\ Has(m, "data")) => outcome' = "ok"
                /\ (ActionOf(m) = "partial" /\ Has(m, "data") /\ Has(m, "keys"))
                      => keys'[T] = m["keys"] /\ outcome' = "ok"
                /\ (IsLoopAction(ActionOf(m)) /\ Has(m, "data"))
                      => hpc' = "loop" /\ row' = 1 /\ outcome' = "running"
         ]_vars

\* C12 happens: an update for table quote, which has no key set, has raised
\* (that is how the table comes to exist without key set), and an insert
\* received after it has appended its rows.
C12_Witness ==
    /\ Has(data, "quote") /\ ~Has(keys, "quote")
    /\ HandledAction("insert") /\ outcome = "ok"
    /\ data[TableOf(msg)] = pre[TableOf(msg)] \o msg["data"]
    /\ sock = "connected"

\* C12 happens for a delete: no row matched, the error was caught
C12_WitnessDelete ==
    /\ HandledAction("delete") /\ outcome = "error"
    /\ Has(preKeys, TableOf(msg))
    /\ sock = "connected"

\* what the caller thread reads of the store d through the query surface
Reads(d) ==
    <<funds(d), market_depth(d), recent_trades(d),
      [p \in Prefixes |-> open_orders(d, p)]>>

\* C13: while the delivery thread is between two rows of an update or delete,
\* having applied some of the rows of the message and not yet the others, the
\* query surface reads what it read before the message was received: no read
\* sees the table with only some of the rows applied.
C13_NoTornRead ==
    (hpc = "loop" /\ row > 1) => Reads(data) = Reads(pre)

\* C14: once a message whose handling raised has been handled, every table
\* holds the rows it held when the message was received, and a table the
\* message created holds none: the message was dropped as a whole.
C14_FailedMessageDropped ==
    (Handled /\ outcome = "error")
        => /\ \A t \in DOMAIN pre : data[t] = pre[t]
           /\ \A t \in DOMAIN data \ DOMAIN pre : data[t] = << >>

\* C15: a table has at most one key set (keys maps its name to one sequence of
\* field names), a key set once stored is never changed or removed, and a
\* table that holds rows has its key set.
C15_KeySetOnce ==
    /\ [][\A t \in DOMAIN keys : Has(keys', t) /\ keys'[t] = keys[t]]_vars
    /\ [](\A t \in DOMAIN data : data[t] # << >> => Has(keys, t))

\* rows u[j], u[j+1], ... merged one after the other into the rows they match in
\* every field of ks, up to the first one that matches no row; `stopped` is the
\* index of that one, 0 when every row matched.  An order left with
\* leavesQty <= 0 is removed.
RECURSIVE MergeUntilUnmatched(_, _, _, _, _)
MergeUntilUnmatched(T, ks, rows, us, j) ==
    IF j > Len(us) THEN [rows |-> rows, stopped |-> 0]
    ELSE LET i == FirstWithKeys(ks, rows, us[j])
         IN  IF i = 0 THEN [rows |-> rows, stopped |-> j]
             ELSE LET merged == [rows EXCEPT ![i] = DictUpdate(rows[i], us[j])]
                      kept == IF T = "order" /\ merged[i]["leavesQty"] <= 0
                              THEN RemoveAt(merged, i) ELSE merged
                  IN  MergeUntilUnmatched(T, ks, kept, us, j + 1)

\* the table T of the store d, empty when d has no such table
RowsOf(d, T) == IF Has(d, T) THEN d[T] ELSE << >>

\* every row of rows carries every field of ks
CarryKeys(ks, rows) ==
    \A i \in 1..Len(rows) : \A k \in 1..Len(ks) : ks[k] \in DOMAIN rows[i]

\* C16: once an update in which some row matches no existing row has been
\* handled, the rows before the first such row are merged into the rows they
\* matched, that row and the rows after it are not applied, and the handler
\* ended by its early return: no error was raised or logged.
C16_UpdateStopsAtFirstUnmatched ==
    HandledAction("update") =>
        LET T == TableOf(msg)
            ks == IF Has(preKeys, T) THEN preKeys[T] ELSE << >>
            e == MergeUntilUnmatched(T, ks, RowsOf(pre, T), msg["data"], 1)
        IN  e.stopped # 0 => data[T] = e.rows /\ outcome = "return"

\* C16 for a table whose key set is known and whose key fields every row of
\* the table and of the message carries
C16_UpdateStopsAtFirstUnmatchedKeyed ==
    (/\ HandledAction("update")
     /\ Has(preKeys, TableOf(msg))
     /\ CarryKeys(preKeys[TableOf(msg)], pre[TableOf(msg)])
     /\ CarryKeys(preKeys[TableOf(msg)], msg["data"]))
        => LET T == TableOf(msg)
               e == MergeUntilUnmatched(T, preKeys[T], pre[T], msg["data"], 1)
           IN  /\ data[T] = e.rows
               /\ outcome = IF e.stopped # 0 THEN "return" ELSE "ok"

\* C16 happens on a keyed table: the first row of an update was merged, the
\* second matched no row, and the handler returned
C16_WitnessKeyed ==
    /\ HandledAction("update") /\ outcome = "return"
    /\ Len(msg["data"]) = 2
    /\ Has(preKeys, TableOf(msg))
    /\ data[TableOf(msg)] # pre[TableOf(msg)]

\* the operations of the commands sent so far
SentOps == [i \in 1..Len(sent) |-> sent[i]["op"]]

\* C17: getAccount is sent in a state in which the transport is connected;
\* the commands are sent in the order getAccount, getSymbol(symbol); getSymbol
\* is sent only when margin, position and order are table names of the store;
\* and when __init__ has returned instrument, trade and orderBook25 are table
\* names too.
C17_PrimingOrdered ==
    /\ [][(sent' # sent /\ sent = << >>) =>
            /\ sock = "connected"
            /\ sent' = <<Command("getAccount", << >>)>>]_vars
    /\ [](SentOps \in {<< >>, <<"getAccount">>, <<"getAccount", "getSymbol">>})
    /\ [](Len(sent) = 2 =>
            /\ sent[2] = Command("getSymbol", Symbol)
            /\ AccountTables \subseteq DOMAIN data)
    /\ [](pc = "ready" =>
            /\ Len(sent) = 2
            /\ AccountTables \cup SymbolTables \subseteq DOMAIN data)

\* C17 happens: both commands were sent, in their order, and __init__ has
\* returned with the six tables in the store
C17_Witness ==
    /\ pc = "ready"
    /\ SentOps = <<"getAccount", "getSymbol">>
    /\ AccountTables \cup SymbolTables \subseteq DOMAIN data

\* C17 happens: getAccount has been sent and the caller waits, no account table
\* being there yet; getSymbol has not been sent
C17_WitnessWaiting ==
    /\ pc = "wait_account"
    /\ SentOps = <<"getAccount">>
    /\ AccountTables \cap DOMAIN data = {}
    /\ Has(data, "instrument")

\* C18: a caller in the wait of __push_account (of __push_symbol) stays there
\* in every step taken while one of margin, position, order (of instrument,
\* trade, orderBook25) is no table name of the store, however long that lasts;
\* and when the caller thread is scheduled fairly, a priming in which the six
\* table names are in the store leads to the return of __init__.
C18_GateWaitsThenReturns ==
    /\ [][(pc = "wait_account" /\ ~(AccountTables \subseteq DOMAIN data))
             => pc' = "wait_account"]_pc
    /\ [][(pc = "wait_symbol" /\ ~(SymbolTables \subseteq DOMAIN data))
             => pc' = "wait_symbol"]_pc
    /\ (/\ pc \in {"wait_account", "push_symbol", "wait_symbol"}
        /\ AccountTables \cup SymbolTables \subseteq DOMAIN data)
          ~> (pc = "ready")

\* C18 happens: the server has sent all it sends and trade never came; the
\* caller is in the wait of __push_symbol, which no step can end
C18_Witness ==
    /\ pc = "wait_symbol"
    /\ ~Has(data, "trade")
    /\ budget = 0 /\ hpc = "idle"

\* C18 happens: the six table names were in the store while the caller was
\* still in the wait of __push_account
C18_WitnessAllThere ==
    /\ pc = "wait_account"
    /\ AccountTables \cup SymbolTables \subseteq DOMAIN data

\* C19: when the connect wait ends on a connected transport, construction goes
\* on to the priming requests: it does not close the transport and exit.
C19_ConnectedIsNoTimeout ==
    [][(pc = "connect_wait" /\ pc' # "connect_wait" /\ sock = "connected")
          => (pc' = "push_account" /\ sock' = "connected")]_vars

\* C20: while and after a message naming table T is handled, whatever its
\* action and its outcome, every table name and every key set the store had
\* when the message was received is still there, and every table other than T
\* has the rows and the key set it had then; no other table has appeared.
C20_OtherTablesUntouched ==
    outcome # "none" =>
        LET T == TableOf(msg)
        IN  /\ DOMAIN pre \subseteq DOMAIN data
            /\ DOMAIN preKeys \subseteq DOMAIN keys
            /\ \A t \in DOMAIN data \ {T} : Has(pre, t) /\ data[t] = pre[t]
            /\ \A t \in DOMAIN keys \ {T} : Has(preKeys, t) /\ keys[t] = preKeys[t]

\* C20 happens: a message that raised has changed the rows of its table, and
\* the store holds other tables with rows
C20_Witness ==
    /\ Handled /\ outcome = "error"
    /\ Has(pre, TableOf(msg))
    /\ data[TableOf(msg)] # pre[TableOf(msg)]
    /\ \E t \in DOMAIN pre \ {TableOf(msg)} : pre[t] # << >> /\ Has(preKeys, t)

\* C20 happens: a message has created its table
C20_WitnessCreated ==
    /\ Handled
    /\ ~Has(pre, TableOf(msg)) /\ Has(data, TableOf(msg))
    /\ DOMAIN pre # {}

====
